---- MODULE Spec2Model ----
(***************************************************************************)
(* Model of app.py (Excel File Consolidator): one press of the "Process    *)
(* Files" button in process_files, which calls consolidate_excel_files and *)
(* get_download_link.                                                      *)
(*                                                                         *)
(* A workbook is a sequence of sheets; a sheet is a grid (a sequence of    *)
(* rows, each a sequence of cells, NaN for an empty cell).  The pandas     *)
(* calls the code makes (read_excel, dropna, column assignment, concat)    *)
(* are modelled by what they do on such grids.  The column ranges of the   *)
(* two tabs ("B:H", "A:G": two seven-column windows, one shifted by one    *)
(* column) are scaled down to two two-column windows "B:C" and "A:B".      *)
(***************************************************************************)
EXTENDS Integers, Sequences, FiniteSets, TLC

\* ---------------------------------------------------------------- bounds
MaxFiles == 2
MaxRows == 2
MaxHeader == 1

\* ------------------------------------------------------------ input data
NaN == "NaN"

NoTable == [none |-> TRUE]

Names == <<"f1.xlsx", "f2.xlsx", "f3.xlsx", "f4.xlsx">>

Source_File == <<"Source_File", 0>>

Ranges == {"B:C", "A:B"}

SheetNames == {"", "Data"}

Header3 == <<"k", "p", "q">>

\* data rows of the three-column sheets: a full row, a row with a value in
\* column A only, an empty row, a row with a value in column C only
Master == << <<"a", "b", "c">>, <<"x", NaN, NaN>>, <<NaN, NaN, NaN>>, <<NaN, NaN, "z">> >>

Offsets == {0, 1}

\* n consecutive rows of Master, starting after the first o of them
DataRowsFrom(o, n) == [j \in 1..n |-> Master[((o + j - 1) % Len(Master)) + 1]]

\* a two-column sheet, too narrow for "B:C", whose header has Source_File
Narrow == << <<"Source_File", "p">>, <<"u", NaN>> >>

Grids ==
    {<<>>, Narrow}
    \cup {<<Header3>> \o DataRowsFrom(o, n) : o \in Offsets, n \in 0..MaxRows}

DataBook ==
    << [title |-> "Sheet1", grid |-> << <<"k", "r", "p">>, <<"a", "b", NaN>> >>],
       [title |-> "Data",   grid |-> << <<"m", "p", "s">>, <<NaN, "c", "d">> >>] >>

Workbooks ==
    {[malformed |-> FALSE, sheets |-> << [title |-> "Sheet1", grid |-> g] >>] : g \in Grids}
    \cup {[malformed |-> FALSE, sheets |-> DataBook]}
    \cup {[malformed |-> TRUE, sheets |-> <<>>]}

Batches == UNION {[1..n -> Workbooks] : n \in 1..MaxFiles}

Upload(batch) ==
    [k \in 1..Len(batch) |->
        [name |-> Names[k], malformed |-> batch[k].malformed, sheets |-> batch[k].sheets]]

\* ------------------------------------------------------------------ state
VARIABLES
    files,              \* uploaded_files
    sheet_name,         \* text input
    header_row,         \* number input
    include_file_name,  \* checkbox
    usecols_range,      \* the tab's column range
    pc,                 \* position in process_files / consolidate_excel_files
    i,                  \* index of the next file of the for loop
    all_dfs,            \* all_dfs
    warnings,           \* st.warning calls, in order
    reads,              \* number of pd.read_excel calls per file
    consolidated_df,    \* consolidated_df of consolidate_excel_files
    returned,           \* consolidated_df was returned to process_files
    json_saved,         \* the JSON snapshot was written
    preview,            \* st.dataframe was called
    link,               \* the download link was rendered
    messages            \* st.success / st.error calls, in order

vars == <<files, sheet_name, header_row, include_file_name, usecols_range, pc, i,
          all_dfs, warnings, reads, consolidated_df, returned, json_saved,
          preview, link, messages>>

inputs == <<files, sheet_name, header_row, include_file_name, usecols_range>>

\* ------------------------------------------------------------ pd.read_excel
UseCols(range) == IF range = "A:B" THEN <<1, 2>> ELSE <<2, 3>>

Position(seq, x) == CHOOSE k \in 1..Len(seq) : seq[k] = x

Range(seq) == {seq[k] : k \in 1..Len(seq)}

\* column label of cell c of the header line: empty cells are "Unnamed: c",
\* a repeated label gets the suffix ".n"
Label(line, c) ==
    IF line[c] = NaN THEN <<"Unnamed", c - 1>>
    ELSE <<line[c], Cardinality({d \in 1..(c - 1) : line[d] = line[c]})>>

SelectSheet(file, sheet) ==
    IF sheet = "" THEN {file.sheets[1]}
    ELSE {file.sheets[k] : k \in {n \in 1..Len(file.sheets) : file.sheets[n].title = sheet}}

Failure(msg) == [ok |-> FALSE, err |-> msg]

DataFrame(cols, rws) == [columns |-> cols, rows |-> rws]

ParseGrid(grid, header, usecols) ==
    IF grid = <<>> THEN [ok |-> TRUE, df |-> DataFrame(<<>>, <<>>)]
    ELSE IF header >= Len(grid) THEN Failure("Passed header, but only fewer lines in file")
    ELSE IF \E k \in 1..Len(usecols) : usecols[k] > Len(grid[header + 1])
        THEN Failure("usecols with out-of-bounds indices")
    ELSE LET line == grid[header + 1]
             n == Len(grid) - (header + 1)
         IN [ok |-> TRUE,
             df |-> DataFrame(
                 [k \in 1..Len(usecols) |-> Label(line, usecols[k])],
                 [j \in 1..n |->
                     [idx |-> j - 1,
                      vals |-> [k \in 1..Len(usecols) |-> grid[header + 1 + j][usecols[k]]]]])]

read_excel(file, sheet, header, range) ==
    IF file.malformed THEN Failure("File is not a zip file")
    ELSE IF SelectSheet(file, sheet) = {} THEN Failure("Worksheet not found")
    ELSE ParseGrid((CHOOSE s \in SelectSheet(file, sheet) : TRUE).grid, header, UseCols(range))

\* ----------------------------------------------------------------- dropna
AllNaN(row) == \A k \in 1..Len(row.vals) : row.vals[k] = NaN

KeepRow(row) == ~AllNaN(row)

dropna(df) == DataFrame(df.columns, SelectSeq(df.rows, KeepRow))

\* ------------------------------------------------- df['Source_File'] = name
SetColumn(df, label, value) ==
    IF label \in Range(df.columns)
    THEN DataFrame(df.columns,
            [j \in 1..Len(df.rows) |->
                [df.rows[j] EXCEPT !.vals[Position(df.columns, label)] = value]])
    ELSE DataFrame(Append(df.columns, label),
            [j \in 1..Len(df.rows) |->
                [df.rows[j] EXCEPT !.vals = Append(df.rows[j].vals, value)]])

\* ----------------------------------------------------------------- concat
\* join="inner": only the columns every frame has
InnerColumns(dfs) ==
    IF dfs = <<>> THEN <<>>
    ELSE LET InAll(c) == \A d \in 1..Len(dfs) : c \in Range(dfs[d].columns)
         IN SelectSeq(dfs[1].columns, InAll)

RECURSIVE UnionColumns(_)
UnionColumns(dfs) ==
    IF dfs = <<>> THEN <<>>
    ELSE LET before == UnionColumns(SubSeq(dfs, 1, Len(dfs) - 1))
             last == dfs[Len(dfs)].columns
             IsNew(c) == c \notin Range(before)
         IN before \o SelectSeq(last, IsNew)

Reindex(df, cols) ==
    [j \in 1..Len(df.rows) |->
        [src |-> <<df.file, df.rows[j].idx>>,
         vals |-> [k \in 1..Len(cols) |->
                     IF cols[k] \in Range(df.columns)
                     THEN df.rows[j].vals[Position(df.columns, cols[k])]
                     ELSE NaN]]]

\* frames stacked in reverse order
RECURSIVE ConcatRowsReversed(_, _)
ConcatRowsReversed(dfs, cols) ==
    IF dfs = <<>> THEN <<>>
    ELSE Reindex(dfs[Len(dfs)], cols) \o ConcatRowsReversed(SubSeq(dfs, 1, Len(dfs) - 1), cols)

RECURSIVE ConcatRows(_, _)
ConcatRows(dfs, cols) ==
    IF dfs = <<>> THEN <<>>
    ELSE ConcatRows(SubSeq(dfs, 1, Len(dfs) - 1), cols) \o Reindex(dfs[Len(dfs)], cols)

\* Source_File moved behind every other column
concatSourceLast(dfs) ==
    LET cols == UnionColumns(dfs)
        NotSource(c) == c # Source_File
        IsSource(c) == c = Source_File
        moved == SelectSeq(cols, NotSource) \o SelectSeq(cols, IsSource)
    IN DataFrame(moved, ConcatRows(dfs, moved))

concat(dfs) == DataFrame(UnionColumns(dfs), ConcatRows(dfs, UnionColumns(dfs)))

\* ------------------------------------------------------------------- Init
Init ==
    /\ files \in {Upload(b) : b \in Batches}
    /\ sheet_name \in SheetNames
    /\ header_row \in 0..MaxHeader
    /\ include_file_name \in BOOLEAN
    /\ usecols_range \in Ranges
    /\ pc = "ready"
    /\ i = 1
    /\ all_dfs = <<>>
    /\ warnings = <<>>
    /\ reads = [k \in 1..Len(files) |-> 0]
    /\ consolidated_df = NoTable
    /\ returned = FALSE
    /\ json_saved = FALSE
    /\ preview = FALSE
    /\ link = FALSE
    /\ messages = <<>>

\* ---------------------------------------------------------------- actions
Error(text) == [kind |-> "error", text |-> text]

Success(n, nrows, ncols) == [kind |-> "success", files |-> n, rows |-> nrows, cols |-> ncols]

\* st.button("Process Files") pressed: consolidate_excel_files is entered
Press ==
    /\ pc = "ready"
    /\ files # <<>>
    /\ pc' = "loop"
    /\ i' = 1
    /\ all_dfs' = <<>>
    /\ UNCHANGED <<inputs, warnings, reads, consolidated_df, returned, json_saved,
                   preview, link, messages>>

\* Source_File set before the empty rows are dropped
PerFileTagFirst(file, k) ==
    LET df == read_excel(file, sheet_name, header_row, usecols_range).df
        tagged == IF include_file_name THEN SetColumn(df, Source_File, file.name) ELSE df
    IN [file |-> k, columns |-> tagged.columns, rows |-> dropna(tagged).rows]

\* Source_File set whatever the checkbox says
PerFileAlwaysTags(file, k) ==
    LET df == dropna(read_excel(file, sheet_name, header_row, usecols_range).df)
        tagged == SetColumn(df, Source_File, file.name)
    IN [file |-> k, columns |-> tagged.columns, rows |-> tagged.rows]

PerFile(file, k) ==
    LET df == dropna(read_excel(file, sheet_name, header_row, usecols_range).df)
        tagged == IF include_file_name THEN SetColumn(df, Source_File, file.name) ELSE df
    IN [file |-> k, columns |-> tagged.columns, rows |-> tagged.rows]

\* one iteration of the for loop whose try block completes
FileRead ==
    /\ pc = "loop"
    /\ i <= Len(files)
    /\ read_excel(files[i], sheet_name, header_row, usecols_range).ok
    /\ reads' = [reads EXCEPT ![i] = @ + 1]
    /\ all_dfs' = Append(all_dfs, PerFile(files[i], i))
    /\ i' = i + 1
    /\ UNCHANGED <<inputs, pc, warnings, consolidated_df, returned, json_saved,
                   preview, link, messages>>

\* the except clause also discards the frames collected so far
FileSkippedDropsFrames ==
    /\ pc = "loop"
    /\ i <= Len(files)
    /\ ~read_excel(files[i], sheet_name, header_row, usecols_range).ok
    /\ reads' = [reads EXCEPT ![i] = @ + 1]
    /\ warnings' = Append(warnings,
            [name |-> files[i].name,
             err |-> read_excel(files[i], sheet_name, header_row, usecols_range).err])
    /\ all_dfs' = <<>>
    /\ i' = i + 1
    /\ UNCHANGED <<inputs, pc, consolidated_df, returned, json_saved,
                   preview, link, messages>>

\* the except clause reads the failing file a second time
FileSkippedRetry ==
    /\ pc = "loop"
    /\ i <= Len(files)
    /\ ~read_excel(files[i], sheet_name, header_row, usecols_range).ok
    /\ reads' = [reads EXCEPT ![i] = @ + 2]
    /\ warnings' = Append(warnings,
            [name |-> files[i].name,
             err |-> read_excel(files[i], sheet_name, header_row, usecols_range).err])
    /\ i' = i + 1
    /\ UNCHANGED <<inputs, pc, all_dfs, consolidated_df, returned, json_saved,
                   preview, link, messages>>

\* one iteration of the for loop that ends in the except clause
FileSkipped ==
    /\ pc = "loop"
    /\ i <= Len(files)
    /\ ~read_excel(files[i], sheet_name, header_row, usecols_range).ok
    /\ reads' = [reads EXCEPT ![i] = @ + 1]
    /\ warnings' = Append(warnings,
            [name |-> files[i].name,
             err |-> read_excel(files[i], sheet_name, header_row, usecols_range).err])
    /\ i' = i + 1
    /\ UNCHANGED <<inputs, pc, all_dfs, consolidated_df, returned, json_saved,
                   preview, link, messages>>

\* "if all_dfs is None": never true of a list
NoFramesIsNone(dfs) == Len(dfs) < 0

NoFrames(dfs) == dfs = <<>>

\* "if not all_dfs: raise ValueError", caught by process_files
NoValidData ==
    /\ pc = "loop"
    /\ i > Len(files)
    /\ NoFrames(all_dfs)
    /\ messages' = Append(messages, Error("No valid data found in the uploaded files"))
    /\ pc' = "done"
    /\ UNCHANGED <<inputs, i, all_dfs, warnings, reads, consolidated_df, returned,
                   json_saved, preview, link>>

Combine ==
    /\ pc = "loop"
    /\ i > Len(files)
    /\ ~NoFrames(all_dfs)
    /\ consolidated_df' = concat(all_dfs)
    /\ pc' = "json"
    /\ UNCHANGED <<inputs, i, all_dfs, warnings, reads, returned, json_saved,
                   preview, link, messages>>

\* consolidated_df.to_json succeeds, the table is returned
JsonWritten ==
    /\ pc = "json"
    /\ json_saved' = TRUE
    /\ returned' = TRUE
    /\ pc' = "preview"
    /\ UNCHANGED <<inputs, i, all_dfs, warnings, reads, consolidated_df, preview,
                   link, messages>>

\* to_json inside the per-file try block: its failure becomes a warning
JsonFailsSwallowed ==
    /\ pc = "json"
    /\ warnings' = Append(warnings, [name |-> files[Len(files)].name, err |-> "to_json failed"])
    /\ returned' = TRUE
    /\ pc' = "preview"
    /\ UNCHANGED <<inputs, i, all_dfs, reads, consolidated_df, json_saved, preview,
                   link, messages>>

\* consolidated_df.to_json raises (for instance OSError), caught by process_files
JsonFails ==
    /\ pc = "json"
    /\ messages' = Append(messages, Error("to_json failed"))
    /\ pc' = "done"
    /\ UNCHANGED <<inputs, i, all_dfs, warnings, reads, consolidated_df, returned,
                   json_saved, preview, link>>

Preview ==
    /\ pc = "preview"
    /\ preview' = TRUE
    /\ pc' = "link"
    /\ UNCHANGED <<inputs, i, all_dfs, warnings, reads, consolidated_df, returned,
                   json_saved, link, messages>>

\* get_download_link returns and the link is rendered
LinkBuilt ==
    /\ pc = "link"
    /\ link' = TRUE
    /\ pc' = "stats"
    /\ UNCHANGED <<inputs, i, all_dfs, warnings, reads, consolidated_df, returned,
                   json_saved, preview, messages>>

\* get_download_link raises, caught by process_files
LinkFails ==
    /\ pc = "link"
    /\ messages' = Append(messages, Error("to_excel failed"))
    /\ pc' = "done"
    /\ UNCHANGED <<inputs, i, all_dfs, warnings, reads, consolidated_df, returned,
                   json_saved, preview, link>>

Stats ==
    /\ pc = "stats"
    /\ messages' = Append(messages,
            Success(Len(files), Len(consolidated_df.rows), Len(consolidated_df.columns)))
    /\ pc' = "done"
    /\ UNCHANGED <<inputs, i, all_dfs, warnings, reads, consolidated_df, returned,
                   json_saved, preview, link>>

Next ==
    \/ Press
    \/ FileRead
    \/ FileSkipped
    \/ NoValidData
    \/ Combine
    \/ JsonWritten
    \/ JsonFails
    \/ Preview
    \/ LinkBuilt
    \/ LinkFails
    \/ Stats

Spec == Init /\ [][Next]_vars

TypeOK ==
    /\ pc \in {"ready", "loop", "json", "preview", "link", "stats", "done"}
    /\ i \in 1..(Len(files) + 1)
    /\ Len(all_dfs) + Len(warnings) = i - 1

\* ------------------------------------------------ the batch, read directly
Parses(k) == read_excel(files[k], sheet_name, header_row, usecols_range).ok

AllParse == \A k \in 1..Len(files) : Parses(k)

NoneParses == \A k \in 1..Len(files) : ~Parses(k)

LoopOver == pc \notin {"ready", "loop"}

HasTable == consolidated_df # NoTable

\* the grid of the sheet that file k is read from
SourceGrid(k) == (CHOOSE s \in SelectSheet(files[k], sheet_name) : TRUE).grid

\* 0-based positions of the rows below the header row of file k
DataRows(k) ==
    IF ~Parses(k) \/ SourceGrid(k) = <<>> THEN {}
    ELSE 0..(Len(SourceGrid(k)) - header_row - 2)

SourceRow(k, j) == SourceGrid(k)[header_row + 2 + j]

NonEmptyInRange(k, j) ==
    \E c \in Range(UseCols(usecols_range)) : SourceRow(k, j)[c] # NaN

NonEmptyAnywhere(k, j) ==
    \E c \in 1..Len(SourceRow(k, j)) : SourceRow(k, j)[c] # NaN

Retained(k) == {j \in DataRows(k) : NonEmptyInRange(k, j)}

RECURSIVE SumRetained(_)
SumRetained(n) == IF n = 0 THEN 0 ELSE SumRetained(n - 1) + Cardinality(Retained(n))

Before(s, t) == s[1] < t[1] \/ (s[1] = t[1] /\ s[2] < t[2])

\* (C1) When every file of the batch parses, the returned table has exactly
\* as many rows as the files have rows that are not empty in the selected
\* columns, each output row comes from a data row of an input file, and the
\* rows are in upload order and, within a file, in the file's row order (so
\* none is duplicated, lost or reordered).
C1_RowsInOrder ==
    (returned /\ AllParse) =>
        LET T == consolidated_df.rows
        IN /\ Len(T) = SumRetained(Len(files))
           /\ \A a \in 1..Len(T) :
                /\ T[a].src[1] \in 1..Len(files)
                /\ T[a].src[2] \in DataRows(T[a].src[1])
           /\ \A a, b \in 1..Len(T) : a < b => Before(T[a].src, T[b].src)

C1_Witness ==
    /\ returned
    /\ AllParse
    /\ Len(files) >= 2
    /\ \E a, b \in 1..Len(consolidated_df.rows) :
            /\ consolidated_df.rows[a].src[1] = 1
            /\ consolidated_df.rows[b].src[1] = 2
    /\ \E k \in 1..Len(files) : Cardinality(Retained(k)) >= 2
    /\ \E k \in 1..Len(files) : Retained(k) # DataRows(k)

\* (C2) No row of a per-file frame or of the consolidated table is empty
\* across the selected column range of the file it comes from: the test
\* looks at the selected columns only and runs before Source_File is set.
C2_NoEmptyRows ==
    /\ \A d \in 1..Len(all_dfs) : \A j \in 1..Len(all_dfs[d].rows) :
            NonEmptyInRange(all_dfs[d].file, all_dfs[d].rows[j].idx)
    /\ HasTable =>
            \A a \in 1..Len(consolidated_df.rows) :
                NonEmptyInRange(consolidated_df.rows[a].src[1], consolidated_df.rows[a].src[2])

C2_Witness ==
    /\ returned
    /\ include_file_name
    /\ Len(consolidated_df.rows) >= 1
    /\ \E k \in 1..Len(files) : \E j \in DataRows(k) :
            NonEmptyAnywhere(k, j) /\ ~NonEmptyInRange(k, j)
    /\ \E k \in 1..Len(files) : \E j \in DataRows(k) : ~NonEmptyAnywhere(k, j)

\* ------------------------------------------------------------ Source_File
Columns == consolidated_df.columns

Rows == consolidated_df.rows

ValueAt(row, label) == row.vals[Position(Columns, label)]

HeaderLine(k) == SourceGrid(k)[header_row + 1]

\* file k parses and its own header row has a cell "Source_File" in the range
HeaderHasSource(k) ==
    /\ Parses(k)
    /\ SourceGrid(k) # <<>>
    /\ \E c \in Range(UseCols(usecols_range)) : HeaderLine(k)[c] = "Source_File"

SourceCell(k, j) ==
    SourceRow(k, j)[CHOOSE c \in Range(UseCols(usecols_range)) : HeaderLine(k)[c] = "Source_File"]

TaggedWithName ==
    /\ Source_File \in Range(Columns)
    /\ \A a \in 1..Len(Rows) : ValueAt(Rows[a], Source_File) = files[Rows[a].src[1]].name

\* (C3, as stated) With include_source_column every row's Source_File is the
\* name of the file the row came from; without it the table has no
\* Source_File column at all.
C3_Original ==
    returned => IF include_file_name THEN TaggedWithName
                ELSE Source_File \notin Range(Columns)

\* (C3, amended) With include_source_column every row's Source_File is the
\* name of the file the row came from; without it the consolidator adds no
\* Source_File column: the table has one only when the header row of a
\* contributing file has a cell labelled Source_File in the selected range,
\* and then it holds that file's own cell values (empty for other files).
C3_SourceColumn ==
    HasTable =>
        IF include_file_name THEN TaggedWithName
        ELSE /\ Source_File \in Range(Columns) <=> \E k \in 1..Len(files) : HeaderHasSource(k)
             /\ Source_File \in Range(Columns) =>
                    \A a \in 1..Len(Rows) :
                        ValueAt(Rows[a], Source_File) =
                            IF HeaderHasSource(Rows[a].src[1])
                            THEN SourceCell(Rows[a].src[1], Rows[a].src[2])
                            ELSE NaN

C3_Witness ==
    /\ returned
    /\ ~include_file_name
    /\ Source_File \in Range(Columns)
    /\ \E a, b \in 1..Len(Rows) :
            /\ HeaderHasSource(Rows[a].src[1])
            /\ ~HeaderHasSource(Rows[b].src[1])

\* ------------------------------------------------------------- total failure
NoValidDataError == Error("No valid data found in the uploaded files")

\* (C4) When every file of a non-empty batch fails to parse, the run ends
\* with the "no valid data" error and no table exists, is returned or shown.
C4_AllFail ==
    (LoopOver /\ NoneParses) =>
        /\ pc = "done"
        /\ messages = <<NoValidDataError>>
        /\ ~HasTable
        /\ ~returned /\ ~preview /\ ~link /\ ~json_saved

C4_Witness ==
    /\ pc = "done"
    /\ NoneParses
    /\ Len(files) >= 2
    /\ messages = <<NoValidDataError>>

\* -------------------------------------------------------- per-file failures
RECURSIVE ExpectedFrames(_)
ExpectedFrames(n) ==
    IF n = 0 THEN <<>>
    ELSE IF Parses(n) THEN Append(ExpectedFrames(n - 1), PerFile(files[n], n))
    ELSE ExpectedFrames(n - 1)

WarningsNaming(name) == {w \in 1..Len(warnings) : warnings[w].name = name}

C6_NeverEmptyTable == returned => Len(Rows) > 0

\* ---------------------------------------------------------- render failures
JsonError == Error("to_json failed")

ExcelError == Error("to_excel failed")

ParseWarningsOnly ==
    /\ Len(warnings) = Cardinality({k \in 1..(i - 1) : ~Parses(k)})
    /\ \A w \in 1..Len(warnings) : \E k \in 1..Len(files) :
            ~Parses(k) /\ warnings[w].name = files[k].name

\* (C7, as stated) A failure writing the JSON snapshot or building the
\* spreadsheet is not turned into a per-file warning, delivers no table and no
\* download link, and is shown as the failure of the batch.
C7_Original ==
    /\ ParseWarningsOnly
    /\ (JsonError \in Range(messages) \/ ExcelError \in Range(messages)) =>
            /\ pc = "done"
            /\ Len(messages) = 1
            /\ ~returned /\ ~preview /\ ~link

\* (C7, amended) A render failure is never turned into a per-file warning and
\* is shown as the single error of the batch, with no download link and no
\* success message.  When the JSON snapshot fails no table is returned or
\* previewed; when get_download_link fails the table has already been
\* returned and previewed and the JSON snapshot written.
C7_RenderFatal ==
    /\ ParseWarningsOnly
    /\ JsonError \in Range(messages) =>
            /\ pc = "done"
            /\ messages = <<JsonError>>
            /\ ~returned /\ ~preview /\ ~link /\ ~json_saved
    /\ ExcelError \in Range(messages) =>
            /\ pc = "done"
            /\ messages = <<ExcelError>>
            /\ returned /\ preview /\ json_saved /\ ~link

C7_Witness ==
    /\ pc = "done"
    /\ messages = <<ExcelError>>
    /\ preview
    /\ Len(warnings) >= 1

\* ------------------------------------------------------------ column schema
FrameOf(k) == all_dfs[CHOOSE d \in 1..Len(all_dfs) : all_dfs[d].file = k]

FrameRow(k, j) ==
    FrameOf(k).rows[CHOOSE n \in 1..Len(FrameOf(k).rows) : FrameOf(k).rows[n].idx = j]

RECURSIVE SumFrameRows(_)
SumFrameRows(n) == IF n = 0 THEN 0 ELSE SumFrameRows(n - 1) + Len(all_dfs[n].rows)

\* (C8) The table's columns are the union of the columns of the frames of all
\* contributing files, no row is dropped, and each row holds its file's value
\* in the columns its file has and an empty value in the others.
C8_UnionSchema ==
    HasTable =>
        /\ Range(Columns) = UNION {Range(all_dfs[d].columns) : d \in 1..Len(all_dfs)}
        /\ Cardinality(Range(Columns)) = Len(Columns)
        /\ Len(Rows) = SumFrameRows(Len(all_dfs))
        /\ \A a \in 1..Len(Rows) : \A m \in 1..Len(Columns) :
                LET f == FrameOf(Rows[a].src[1])
                IN Rows[a].vals[m] =
                        IF Columns[m] \in Range(f.columns)
                        THEN FrameRow(Rows[a].src[1], Rows[a].src[2]).vals[Position(f.columns, Columns[m])]
                        ELSE NaN

C8_Witness ==
    /\ returned
    /\ Len(all_dfs) >= 2
    /\ Range(all_dfs[1].columns) # Range(all_dfs[2].columns)
    /\ \E a, b \in 1..Len(Rows) : \E m, n \in 1..Len(Columns) :
            /\ Rows[a].src[1] = all_dfs[1].file
            /\ Columns[m] \notin Range(all_dfs[1].columns)
            /\ Rows[b].src[1] = all_dfs[2].file
            /\ Columns[n] \notin Range(all_dfs[2].columns)

\* the labels the first contributing file has in the selected range
FirstData ==
    LET k == all_dfs[1].file
    IN IF SourceGrid(k) = <<>> THEN <<>>
       ELSE [m \in 1..Len(UseCols(usecols_range)) |->
                Label(HeaderLine(k), UseCols(usecols_range)[m])]

IsPrefix(p, s) == Len(p) <= Len(s) /\ SubSeq(s, 1, Len(p)) = p

\* (C9, as stated) The first contributing file's columns come first in their
\* order and, when requested, Source_File comes after all data columns (read
\* for batches in which no file has a header cell labelled Source_File and
\* every contributing file contributes a row).
C9_Original ==
    (/\ returned
     /\ \A k \in 1..Len(files) : ~HeaderHasSource(k)
     /\ \A d \in 1..Len(all_dfs) : all_dfs[d].rows # <<>>) =>
        /\ IsPrefix(FirstData, Columns)
        /\ include_file_name =>
                /\ Columns # <<>>
                /\ Columns[Len(Columns)] = Source_File

FirstFrameWith(c) == CHOOSE d \in 1..Len(all_dfs) :
    /\ c \in Range(all_dfs[d].columns)
    /\ \A e \in 1..(d - 1) : c \notin Range(all_dfs[e].columns)

Introduced(c) == <<FirstFrameWith(c), Position(all_dfs[FirstFrameWith(c)].columns, c)>>

\* (C9, amended) The first contributing file's columns come first in their
\* order, directly followed by Source_File when it is requested and that file
\* has no column of that label itself; the columns that later files
\* introduce come after these, in the order in which they first appear.
C9_ColumnOrder ==
    HasTable =>
        LET F == IF include_file_name /\ Source_File \notin Range(FirstData)
                 THEN Append(FirstData, Source_File) ELSE FirstData
        IN /\ IsPrefix(F, Columns)
           /\ \A a \in (Len(F) + 1)..Len(Columns) :
                /\ Columns[a] \notin Range(F)
                /\ FirstFrameWith(Columns[a]) > 1
           /\ \A a, b \in (Len(F) + 1)..Len(Columns) :
                a < b => Before(Introduced(Columns[a]), Introduced(Columns[b]))

C9_Witness ==
    /\ returned
    /\ include_file_name
    /\ Len(all_dfs) >= 2
    /\ Len(Columns) > Len(all_dfs[1].columns)
    /\ Columns[Len(Columns)] # Source_File

\* ------------------------------------------------------------ one summary
\* (C10) A press shows at most one summary message and ends with exactly
\* one, a success or an error; warnings do not stop the batch (every file
\* has been read when the run ends) and no file is read more than once.
C10_OneSummary ==
    /\ Len(messages) <= 1
    /\ \A m \in 1..Len(messages) : messages[m].kind \in {"success", "error"}
    /\ \A k \in 1..Len(files) : reads[k] <= 1
    /\ Len(messages) = 1 <=> pc = "done"
    /\ pc = "done" => \A k \in 1..Len(files) : reads[k] = 1

C10_Witness ==
    /\ pc = "done"
    /\ Len(files) >= 2
    /\ Len(warnings) >= 1
    /\ messages[1].kind = "success"
====
